---- MODULE Spec2Model ----
(***************************************************************************)
(* Model of the assoc_static crate (src/src/lib.rs).                       *)
(*                                                                         *)
(* A program that uses the crate is a list of assoc_static!() invocations  *)
(* and of accessor call sites, written in a crate that depends on          *)
(* assoc_static.  The build expands every invocation into one             *)
(* `impl AssocStatic<TARGET, TAG> for T` holding one function-local        *)
(* `static ASSOCIATED_STATIC`; the compiler's checks on that expansion     *)
(* (overlapping impls, the orphan rule, `Sync` of a static's type, trait   *)
(* selection at a call site) decide whether the program builds.  A built   *)
(* program then runs: threads call get_static() and from().                *)
(***************************************************************************)
EXTENDS Naturals, FiniteSets, Sequences

\* bounds of the model
MaxDecls == 2
NumThreads == 2

Threads == 1 .. NumThreads

\* the types a program of the model is written with
Owners == {"A", "i32"}
Tags == {"Unit", "T1", "T2"}
Targets == {"str", "u32", "CellU32"}
Values == {"x", "y"}
Instances == {"this1", "this2"}

\* types defined by the declaring crate (struct A; struct T1; struct T2)
LocalTypes == {"A", "T1", "T2"}
\* types that are not Sync by themselves: A is a struct holding an Rc, T2 a
\* marker struct holding a PhantomData<*const ()>, CellU32 is
\* std::cell::Cell<u32>; i32, (), T1, &'static str and u32 are Sync
NotSyncTypes == {"A", "T2", "CellU32"}

VARIABLES phase, impls, mem, diag, pc, req, ret

vars == <<phase, impls, mem, diag, pc, req, ret>>

----
\* type terms, as far as the Sync check needs them

Base(n) == [k |-> "base", n |-> n, a |-> <<>>]
PhantomData(t) == [k |-> "PhantomData", n |-> "", a |-> <<t>>]
MakeSync(t) == [k |-> "MakeSync", n |-> "", a |-> <<t>>]
Tuple(ts) == [k |-> "tuple", n |-> "", a |-> ts]

RECURSIVE IsSync(_)
IsSync(t) ==
    CASE t.k = "base" -> t.n \notin NotSyncTypes
      [] t.k = "MakeSync" -> TRUE
      [] t.k = "PhantomData" -> IsSync(t.a[1])
      [] OTHER -> \A i \in 1 .. Len(t.a) : IsSync(t.a[i])

----
\* the declarations (macro invocations) and what they expand to

Decls ==
    [arm : {"tagged"}, owner : Owners, tag : Tags, target : Targets, init : Values]
    \cup
    [arm : {"untagged"}, owner : Owners, tag : {"omitted"}, target : Targets, init : Values]

NoDecl == [arm |-> "none", owner |-> "none", tag |-> "none", target |-> "none", init |-> "none"]

\* mutant: the untagged arm keyed under a tag of its own
ImplTagOmitted(d) == d.tag

ImplTag(d) == IF d.arm = "untagged" THEN "Unit" ELSE d.tag

\* mutant: the owner and tag markers without MakeSync
StaticTypeBare(d) ==
    Tuple(<<Base(d.target), PhantomData(Base(d.owner)),
            PhantomData(Base(IF d.arm = "untagged" THEN "Unit" ELSE d.tag))>>)

StaticType(d) ==
    IF d.arm = "untagged"
    THEN Tuple(<<Base(d.target), PhantomData(MakeSync(Base(d.owner))), PhantomData(Base("Unit"))>>)
    ELSE Tuple(<<Base(d.target), PhantomData(MakeSync(Base(d.owner))), PhantomData(MakeSync(Base(d.tag)))>>)

\* mutant: the cell filled on first use instead of by the build
StaticInitLazy(d) == "uninit"

StaticInit(d) == d.init

\* mutants: an impl header without the tag, without the target, and a build
\* that does not compare headers
OverlapNoTag(d, is) ==
    \E i \in is : i.owner = d.owner /\ i.target = d.target

OverlapNoTarget(d, is) ==
    \E i \in is : i.owner = d.owner /\ i.tag = (IF d.arm = "untagged" THEN "Unit" ELSE d.tag)

OverlapNever(d, is) == FALSE

Overlap(d, is) ==
    \E i \in is : i.owner = d.owner /\ i.target = d.target /\ i.tag = ImplTag(d)

\* The impl of a trait of another crate must name a local type.  (Inside
\* assoc_static itself the trait is local and every declaration passes; the
\* model is of a crate that depends on assoc_static.)
\* mutant: only a local owner satisfies the orphan rule
OrphanOkOwner(d) == d.owner \in LocalTypes

OrphanOk(d) ==
    d.owner \in LocalTypes \/ d.target \in LocalTypes \/ ImplTag(d) \in LocalTypes

DeclErrors(d, is) ==
    (IF Overlap(d, is) THEN {"collision"} ELSE {})
    \cup (IF OrphanOk(d) THEN {} ELSE {"orphan"})
    \cup (IF IsSync(StaticType(d)) THEN {} ELSE {"not_sync"})

NewImpl(d, m) ==
    [owner |-> d.owner, target |-> d.target, tag |-> ImplTag(d), arm |-> d.arm,
     addr |-> Len(m) + 1, init |-> d.init]

----
\* the call sites and their resolution

Reqs ==
    [kind : {"get_static"}, owner : Owners, target : Targets,
     tag : Tags \cup {"Infer"}, this : {"none"}]
    \cup
    [kind : {"from"}, owner : Owners, target : Targets,
     tag : Tags \cup {"Infer"}, this : Instances]

NoReq == [kind |-> "none", owner |-> "none", target |-> "none", tag |-> "none", this |-> "none"]

Candidates(r, is) ==
    {i \in is : i.owner = r.owner /\ i.target = r.target
                /\ (r.tag = "Infer" \/ i.tag = r.tag)}

\* mutant: an ambiguous call site takes the first impl that fits
ResolvesAny(r, is) == Candidates(r, is) # {}

Resolves(r, is) == Cardinality(Candidates(r, is)) = 1

Selected(r, is) == CHOOSE i \in Candidates(r, is) : TRUE

SiteErrors(r, is) ==
    IF Candidates(r, is) = {} THEN {"unresolved"}
    ELSE IF Cardinality(Candidates(r, is)) > 1 THEN {"ambiguous"}
    ELSE {}

----
\* the accessors

NoRet == [addr |-> 0, val |-> "none"]

\* mutant: a reference to a temporary copy of the static
GetStaticTemp(i, m) == [addr |-> Len(m) + 1, val |-> m[i.addr]]

GetStatic(i, m) == [addr |-> i.addr, val |-> m[i.addr]]

\* mutant: a cell per instance
FromPerInstance(this, i, m) ==
    IF this = "this1" THEN [addr |-> i.addr, val |-> m[i.addr]]
    ELSE [addr |-> Len(m) + 1, val |-> m[i.addr]]

From(this, i, m) == GetStatic(i, m)

----
NoDiag == [reasons |-> {}, decl |-> NoDecl, site |-> NoReq]

Init ==
    /\ phase = "build"
    /\ impls = {}
    /\ mem = <<>>
    /\ diag = NoDiag
    /\ pc = [t \in Threads |-> "idle"]
    /\ req = [t \in Threads |-> NoReq]
    /\ ret = [t \in Threads |-> NoRet]

Declare(d) ==
    /\ phase = "build"
    /\ Cardinality(impls) < MaxDecls
    /\ IF DeclErrors(d, impls) = {}
       THEN /\ impls' = impls \cup {NewImpl(d, mem)}
            /\ mem' = Append(mem, StaticInit(d))
            /\ UNCHANGED <<phase, diag>>
       ELSE /\ phase' = "failed"
            /\ diag' = [reasons |-> DeclErrors(d, impls), decl |-> d, site |-> NoReq]
            /\ UNCHANGED <<impls, mem>>
    /\ UNCHANGED <<pc, req, ret>>

RejectSite(r) ==
    /\ phase = "build"
    /\ SiteErrors(r, impls) # {}
    /\ phase' = "failed"
    /\ diag' = [reasons |-> SiteErrors(r, impls), decl |-> NoDecl, site |-> r]
    /\ UNCHANGED <<impls, mem, pc, req, ret>>

Link ==
    /\ phase = "build"
    /\ phase' = "run"
    /\ UNCHANGED <<impls, mem, diag, pc, req, ret>>

Call(t, r) ==
    /\ phase = "run"
    /\ pc[t] # "calling"
    /\ Resolves(r, impls)
    /\ pc' = [pc EXCEPT ![t] = "calling"]
    /\ req' = [req EXCEPT ![t] = r]
    /\ ret' = [ret EXCEPT ![t] = NoRet]
    /\ UNCHANGED <<phase, impls, mem, diag>>

Return(t) ==
    /\ phase = "run"
    /\ pc[t] = "calling"
    /\ ret' = [ret EXCEPT ![t] =
                 IF req[t].kind = "from"
                 THEN From(req[t].this, Selected(req[t], impls), mem)
                 ELSE GetStatic(Selected(req[t], impls), mem)]
    /\ pc' = [pc EXCEPT ![t] = "returned"]
    /\ UNCHANGED <<phase, impls, mem, diag, req>>

\* the thread that runs main()
Main == 1

Next ==
    \/ \E d \in Decls : Declare(d)
    \/ \E r \in Reqs : RejectSite(r)
    \/ Link
    \/ \E r \in Reqs : Call(Main, r)
    \/ Return(Main)

Spec == Init /\ [][Next]_vars

NextThreads ==
    \/ \E d \in Decls : Declare(d)
    \/ \E r \in Reqs : RejectSite(r)
    \/ Link
    \/ \E t \in Threads, r \in Reqs : Call(t, r)
    \/ \E t \in Threads : Return(t)

SpecThreads == Init /\ [][NextThreads]_vars

----
\* helpers of the properties

\* the tag a declaration is keyed under, as the claims state it
KeyTag(d) == IF d.arm = "untagged" THEN "Unit" ELSE d.tag

\* the associations of owner o and target ta
Assocs(o, ta) == {i \in impls : i.owner = o /\ i.target = ta}

\* the associations a request names
Named(r) == {i \in Assocs(r.owner, r.target) : r.tag \in {"Infer", i.tag}}

Cell(i) == [addr |-> i.addr, val |-> i.init]

RejectedDecl == phase = "failed" /\ diag.decl # NoDecl
RejectedSite == phase = "failed" /\ diag.site # NoReq

----
\* C1 Identity stability: every association has exactly one storage cell,
\* holding the value of its initializer; every get_static() of the
\* association returns a reference to that cell; and no step of the program
\* removes an association, moves it to another cell or changes a cell.
C1_Cells ==
    \A i \in impls :
        /\ i.addr \in 1 .. Len(mem)
        /\ mem[i.addr] = i.init
        /\ \A j \in impls :
               (j.owner = i.owner /\ j.target = i.target /\ j.tag = i.tag) => j = i

C1_Calls ==
    \A t \in Threads :
        (pc[t] = "returned" /\ req[t].kind = "get_static")
            => /\ Cardinality(Named(req[t])) = 1
               /\ \A i \in Named(req[t]) : ret[t] = Cell(i)

C1_Stable ==
    /\ impls \subseteq impls'
    /\ \A a \in 1 .. Len(mem) : a \in 1 .. Len(mem') /\ mem'[a] = mem[a]
    /\ (phase = "run" => impls' = impls /\ mem' = mem)

\* C1: the cells and the calls are as above in every state, and every step
\* keeps the associations and the cells.
C1_IdentityStability == [](C1_Cells /\ C1_Calls) /\ [][C1_Stable]_vars

\* two cells hold equal contents, and get_static() returned the second one
C1_Witness ==
    /\ Len(mem) = 2
    /\ mem[1] = mem[2]
    /\ pc[Main] = "returned"
    /\ req[Main].kind = "get_static"
    /\ ret[Main] = [addr |-> 2, val |-> mem[2]]

\* C2 Instance/key equivalence: whatever instance it is given, from() returns
\* the reference to the one cell of the association it was resolved to, the
\* one get_static() returns, and there are never more cells than associations.
C2_InstanceKeyEquivalence ==
    /\ Len(mem) = Cardinality(impls)
    /\ \A t \in Threads :
           (pc[t] = "returned" /\ req[t].kind = "from")
               => /\ req[t].this \in Instances
                  /\ Cardinality(Named(req[t])) = 1
                  /\ \A i \in Named(req[t]) :
                         ret[t] = [addr |-> i.addr, val |-> mem[i.addr]]

C2_Witness ==
    /\ pc[Main] = "returned"
    /\ req[Main].kind = "from"
    /\ req[Main].this = "this2"
    /\ Cardinality(impls) = 2
    /\ ret[Main].addr = 2

C4_Inv ==
    /\ \A i, j \in impls :
           (i.owner = j.owner /\ i.target = j.target /\ i.tag = j.tag) => i = j
    /\ Len(mem) = Cardinality(impls)
    /\ (RejectedDecl
          /\ \E i \in Assocs(diag.decl.owner, diag.decl.target) : i.tag = KeyTag(diag.decl))
         => "collision" \in diag.reasons
    /\ phase = "failed" => \A t \in Threads : pc[t] = "idle"
    /\ phase = "run" => diag = NoDiag

C4_Step ==
    /\ (phase' = "failed" => impls' = impls /\ mem' = mem)
    /\ (impls' # impls
          => /\ Cardinality(impls') = Cardinality(impls) + 1
             /\ Len(mem') = Len(mem) + 1
             /\ \A n \in impls' \ impls :
                    \A i \in impls :
                        ~(i.owner = n.owner /\ i.target = n.target /\ i.tag = n.tag))

\* C4: the triples stay unique in every state, and every step that rejects
\* leaves associations and cells alone.
C4_DuplicateKeyRejection == []C4_Inv /\ [][C4_Step]_vars

\* a second declaration of a declared triple, with another initializer
C4_Witness ==
    /\ RejectedDecl
    /\ "collision" \in diag.reasons
    /\ \E i \in Assocs(diag.decl.owner, diag.decl.target) :
           /\ i.tag = KeyTag(diag.decl)
           /\ i.init # diag.decl.init
           /\ mem[i.addr] = i.init

C6_AmbiguousResolution ==
    /\ (RejectedSite /\ diag.site.tag = "Infer"
          /\ Cardinality(Assocs(diag.site.owner, diag.site.target)) >= 2)
         => diag.reasons = {"ambiguous"}
    /\ \A t \in Threads :
           (pc[t] # "idle" /\ Cardinality(Assocs(req[t].owner, req[t].target)) >= 2)
               => /\ req[t].tag # "Infer"
                  /\ pc[t] = "returned"
                       => \E i \in Assocs(req[t].owner, req[t].target) :
                              i.tag = req[t].tag /\ ret[t] = Cell(i)

\* from(&instance) without a tag, the owner having two tags for the target
C6_Witness ==
    /\ RejectedSite
    /\ diag.site.kind = "from"
    /\ diag.site.tag = "Infer"
    /\ Cardinality(Assocs(diag.site.owner, diag.site.target)) = 2
    /\ diag.reasons = {"ambiguous"}

\* C7 Default tag: an association declared without a tag is keyed under ();
\* a declaration is rejected as a collision exactly when an association
\* with its owner, its target and its tag (() when it has none) exists.
C7_DefaultTag ==
    /\ \A i \in impls : i.arm = "untagged" => i.tag = "Unit"
    /\ RejectedDecl
         => ("collision" \in diag.reasons
               <=> \E i \in impls :
                       /\ i.owner = diag.decl.owner
                       /\ i.target = diag.decl.target
                       /\ i.tag = KeyTag(diag.decl))
    /\ \A i, j \in impls :
           (i.arm = "untagged" /\ j.arm = "tagged"
              /\ i.owner = j.owner /\ i.target = j.target)
               => j.tag # "Unit" /\ i.addr # j.addr

\* a declaration tagged () after an untagged one of the same owner and target
C7_Witness ==
    /\ RejectedDecl
    /\ diag.decl.arm = "tagged"
    /\ diag.decl.tag = "Unit"
    /\ "collision" \in diag.reasons
    /\ \E i \in Assocs(diag.decl.owner, diag.decl.target) : i.arm = "untagged"

C9_TargetIndependence ==
    /\ (RejectedDecl /\ diag.decl.arm = "untagged"
          /\ Assocs(diag.decl.owner, diag.decl.target) = {})
         => "collision" \notin diag.reasons
    /\ \A i, j \in impls :
           (i.owner = j.owner /\ i.target # j.target)
               => i.addr # j.addr /\ mem[i.addr] = i.init /\ mem[j.addr] = j.init
    /\ \A t \in Threads :
           pc[t] = "returned"
               => \E i \in impls :
                      i.owner = req[t].owner /\ i.target = req[t].target /\ ret[t] = Cell(i)

\* one owner with an untagged str and an untagged u32 of different values,
\* and a call for the u32 that leaves the tag out returned
C9_Witness ==
    \E i, j \in impls :
        /\ i.owner = j.owner
        /\ i.arm = "untagged" /\ j.arm = "untagged"
        /\ i.target = "str" /\ j.target = "u32"
        /\ i.init # j.init
        /\ pc[Main] = "returned"
        /\ req[Main].target = "u32" /\ req[Main].tag = "Infer"
        /\ ret[Main] = Cell(j)

\* C10 Many readers, zero writers: no thread is in an accessor before the
\* program runs, and when it runs every cell holds its initializer's value;
\* no step of the running program changes a cell or an association; every
\* call that returned returned its cell's initial value; and whatever the
\* other threads do, a thread in an accessor can return and a thread outside
\* one can call.
C10_Inv ==
    /\ \A t \in Threads : pc[t] # "idle" => phase = "run"
    /\ phase = "run"
         => \A i \in impls : i.addr \in 1 .. Len(mem) /\ mem[i.addr] = i.init
    /\ \A t \in Threads :
           pc[t] = "returned"
               => /\ Cardinality(Named(req[t])) = 1
                  /\ \A i \in Named(req[t]) : ret[t] = Cell(i)
    /\ \A t \in Threads : pc[t] = "calling" => ENABLED Return(t)
    /\ \A t \in Threads :
           (phase = "run" /\ pc[t] # "calling")
               => \A r \in Reqs : Cardinality(Named(r)) = 1 => ENABLED Call(t, r)

C10_NoWrite == phase = "run" => mem' = mem /\ impls' = impls

\* C10: readers are never blocked and read initial values in every state,
\* and no step of the running program writes.
C10_ManyReadersZeroWriters == []C10_Inv /\ [][C10_NoWrite]_vars

\* one thread has read a cell through from() while another is inside
\* get_static() for the same association
C10_Witness ==
    /\ pc[1] = "returned" /\ req[1].kind = "from"
    /\ pc[2] = "calling" /\ req[2].kind = "get_static"
    /\ Named(req[1]) = Named(req[2])
    /\ Cardinality(impls) = 2

====
